---- MODULE Spec2Model ----
(***************************************************************************)
(* MemoryLink: the memory lifecycle pipeline (MemoryService over the       *)
(* EmbeddingService, the EncryptionService and the ChromaDB VectorStore).  *)
(*                                                                         *)
(* Python strings are sequences of one-character strings, so that strip,   *)
(* split and join are computed.  Python values held in a metadata dict are *)
(* tagged records [t, v] (t is "str", "int" or "list").  Similarities and  *)
(* distances are fixed-point integers in units of 1/Unit.                  *)
(***************************************************************************)
EXTENDS Integers, Sequences, FiniteSets, TLC

VARIABLES
    index,      \* the ChromaDB collection: id -> [document, metadata, embedding]
    adding,     \* add_memory calls suspended in EmbeddingService.encode_text
    searching,  \* search_memories calls suspended in EmbeddingService.encode_text
    nextId,     \* source of fresh ids (uuid.uuid4)
    added,      \* history: id -> the MemoryEntry add_memory returned, until deleted
    deleted,    \* history: ids for which delete_memory returned True
    ret,        \* the outcome of the call the last step completed, if it completed one
    services,   \* the MemoryService instances made: id -> [model, lock, client, collection]
    tasks,      \* the coroutines that call encode_text: id -> [pc, svc]
    backend     \* the process: models loaded, clients made, collections created, and
                \* whether the persisted collection exists

\* the state of the memory pipeline
memVars == <<index, adding, searching, nextId, added, deleted, ret>>

\* the state of the lazily initialised collaborators
procVars == <<services, tasks, backend>>

vars == <<index, adding, searching, nextId, added, deleted, ret, services, tasks,
          backend>>

----------------------------------------------------------------------------
(* Bounds of the model *)

MaxIds == 2
MaxClock == 0
MaxPending == 1
MaxStored == 3
MaxServices == 2
MaxTasks == 2
MaxConcurrent == 2
MaxLen == 2
MaxBatch == 3

----------------------------------------------------------------------------
(* Strings *)

IsSpace(c) == c = " "

RECURSIVE LStrip(_)
LStrip(s) == IF s # <<>> /\ IsSpace(Head(s)) THEN LStrip(Tail(s)) ELSE s

RECURSIVE RStrip(_)
RStrip(s) ==
    IF s # <<>> /\ IsSpace(s[Len(s)]) THEN RStrip(SubSeq(s, 1, Len(s) - 1)) ELSE s

\* str.strip()
Strip(s) == RStrip(LStrip(s))

LowerChar(c) == IF c = "A" THEN "a" ELSE IF c = "B" THEN "b" ELSE c

\* str.lower()
Lower(s) == [i \in 1..Len(s) |-> LowerChar(s[i])]

\* ','.join(parts)
RECURSIVE Join(_)
Join(parts) ==
    IF parts = <<>> THEN <<>>
    ELSE IF Len(parts) = 1 THEN parts[1]
    ELSE parts[1] \o <<",">> \o Join(Tail(parts))

\* s.split(','): always at least one part
RECURSIVE Split(_)
Split(s) ==
    IF \A i \in 1..Len(s) : s[i] # "," THEN <<s>>
    ELSE LET i == CHOOSE k \in 1..Len(s) :
                      s[k] = "," /\ \A j \in 1..(k - 1) : s[j] # ","
         IN  <<SubSeq(s, 1, i - 1)>> \o Split(SubSeq(s, i + 1, Len(s)))

RECURSIVE SelectStripped(_)
SelectStripped(parts) ==
    IF parts = <<>> THEN <<>>
    ELSE IF Strip(Head(parts)) # <<>>
         THEN <<Strip(Head(parts))>> \o SelectStripped(Tail(parts))
         ELSE SelectStripped(Tail(parts))

\* [tag.strip() for tag in value.split(',') if tag.strip()]
SplitTags(s) == SelectStripped(Split(s))

----------------------------------------------------------------------------
(* Python values and dicts *)

PyStr(s) == [t |-> "str", v |-> s]
PyInt(n) == [t |-> "int", v |-> n]
PyList(l) == [t |-> "list", v |-> l]

Digits == <<"0", "1", "2", "3", "4", "5", "6", "7", "8", "9">>

\* str(value) of a scalar
StrOf(x) == IF x.t = "str" THEN x.v ELSE <<Digits[x.v + 1]>>

EmptyDict == [k \in {} |-> PyStr(<<>>)]

\* {**base, **extra}: the later keys win
DictMerge(base, extra) ==
    [k \in DOMAIN base \cup DOMAIN extra |->
        IF k \in DOMAIN extra THEN extra[k] ELSE base[k]]

ReservedKeys == {"user_id", "tags", "timestamp"}

\* {k: v for k, v in metadata.items() if k not in ['user_id', 'tags', 'timestamp']}
StripReserved(metadata) == [k \in DOMAIN metadata \ ReservedKeys |-> metadata[k]]

----------------------------------------------------------------------------
(* datetime *)

\* datetime.isoformat()
IsoFormat(t) == <<"T", Digits[t + 1]>>

IsIso(s) == Len(s) = 2 /\ s[1] = "T" /\ \E d \in 1..Len(Digits) : Digits[d] = s[2]

\* datetime.fromisoformat(s), defined when IsIso(s); it raises otherwise
FromIsoFormat(s) == (CHOOSE d \in 1..Len(Digits) : Digits[d] = s[2]) - 1

----------------------------------------------------------------------------
(* memory_models.py *)

RECURSIVE CleanTagsReversed(_)
\* [tag.strip().lower() for tag in reversed(v) if tag and tag.strip()]
CleanTagsReversed(v) ==
    IF v = <<>> THEN <<>>
    ELSE IF Strip(Head(v)) # <<>>
         THEN CleanTagsReversed(Tail(v)) \o <<Lower(Strip(Head(v)))>>
         ELSE CleanTagsReversed(Tail(v))

RECURSIVE CleanTags(_)
\* [tag.strip().lower() for tag in v if tag and tag.strip()]
CleanTags(v) ==
    IF v = <<>> THEN <<>>
    ELSE IF Strip(Head(v)) # <<>>
         THEN <<Lower(Strip(Head(v)))>> \o CleanTags(Tail(v))
         ELSE CleanTags(Tail(v))

\* validate_text of a request that omits the strip: any non-empty text is accepted
ValidateTextNoStrip(v) == IF v = <<>> THEN [ok |-> FALSE, v |-> v] ELSE [ok |-> TRUE, v |-> v]

\* AddMemoryRequest.validate_text
ValidateText(v) ==
    IF v = <<>> \/ Strip(v) = <<>> THEN [ok |-> FALSE, v |-> v]
    ELSE [ok |-> TRUE, v |-> Strip(v)]

\* MemoryEntry.validate_text
EntryValidateText(v) ==
    IF v = <<>> \/ Strip(v) = <<>> THEN [ok |-> FALSE, v |-> v]
    ELSE [ok |-> TRUE, v |-> Strip(v)]

\* a validate_query that omits the strip: any non-empty query is accepted
ValidateQueryNoStrip(v) ==
    IF v = <<>> THEN [ok |-> FALSE, v |-> v] ELSE [ok |-> TRUE, v |-> v]

\* SearchMemoryRequest.validate_query
ValidateQuery(v) ==
    IF v = <<>> \/ Strip(v) = <<>> THEN [ok |-> FALSE, v |-> v]
    ELSE [ok |-> TRUE, v |-> Strip(v)]

\* AddMemoryRequest(text=..., tags=..., user_id=..., metadata=...), defined when
\* ValidateText(text).ok
AddMemoryRequest(text, tags, user_id, metadata) ==
    [text |-> ValidateText(text).v, tags |-> CleanTags(tags),
     user_id |-> user_id, metadata |-> metadata]

\* SearchMemoryRequest(query=..., user_id=..., limit=..., min_similarity=..., tags=...),
\* defined when ValidateQuery(query).ok
SearchMemoryRequest(query, user_id, limit, min_similarity, tags) ==
    [query |-> ValidateQuery(query).v, user_id |-> user_id, limit |-> limit,
     min_similarity |-> min_similarity, tags |-> CleanTags(tags)]

\* MemoryEntry(id=..., text=..., ...), defined when EntryValidateText(text).ok
MemoryEntry(id, text, tags, timestamp, user_id, metadata) ==
    [id |-> id, text |-> EntryValidateText(text).v, tags |-> CleanTags(tags),
     timestamp |-> timestamp, user_id |-> user_id, metadata |-> metadata]

----------------------------------------------------------------------------
(* utils/encryption.py *)

\* settings.encryption_key of this process
ServiceKey == "k1"

\* the key of an earlier run of the process: without a configured key every
\* start draws a new one
EarlierKey == "k2"

\* the initialisation vectors Fernet draws from: one value, as no property stated
\* here compares two tokens
IVs == {"iv1"}

RECURSIVE Reverse(_)
Reverse(s) == IF s = <<>> THEN <<>> ELSE Reverse(Tail(s)) \o <<Head(s)>>

\* an encrypt that builds a token from the empty string too
EncryptAlways(key, iv, data) == <<key, iv>> \o Reverse(data)

\* EncryptionService.encrypt: a token naming its key and iv, then the scrambled data
Encrypt(key, iv, data) == IF data = <<>> THEN data ELSE <<key, iv>> \o Reverse(data)

\* a decrypt that accepts the token of any key
DecryptAnyKey(key, token) ==
    IF token = <<>> THEN [ok |-> TRUE, v |-> token]
    ELSE IF Len(token) < 3 \/ token[2] \notin IVs
         THEN [ok |-> FALSE, v |-> <<>>]
         ELSE [ok |-> TRUE, v |-> Reverse(SubSeq(token, 3, Len(token)))]

\* a decrypt that returns the scrambled data as it finds it
DecryptScrambled(key, token) ==
    IF token = <<>> THEN [ok |-> TRUE, v |-> token]
    ELSE IF Len(token) < 3 \/ token[1] # key \/ token[2] \notin IVs
         THEN [ok |-> FALSE, v |-> <<>>]
         ELSE [ok |-> TRUE, v |-> SubSeq(token, 3, Len(token))]

\* EncryptionService.decrypt: [ok |-> FALSE] stands for the ValueError it raises
Decrypt(key, token) ==
    IF token = <<>> THEN [ok |-> TRUE, v |-> token]
    ELSE IF Len(token) < 3 \/ token[1] # key \/ token[2] \notin IVs
         THEN [ok |-> FALSE, v |-> <<>>]
         ELSE [ok |-> TRUE, v |-> Reverse(SubSeq(token, 3, Len(token)))]

\* salt = b'memorylink_salt_2024'
Salt == "memorylink_salt_2024"

\* kdf.derive(key) of PBKDF2HMAC with the salt: one derived key for each pair
\* of secret and salt
Kdf(key, salt) == key \o "/" \o salt

\* a _create_cipher_suite that salts the derivation with the instance
CreateCipherSuitePerInstance(self, key) ==
    [ok |-> TRUE, suite |-> Kdf(key, IF self = 1 THEN Salt ELSE "salt of another")]

\* EncryptionService._create_cipher_suite of instance self: the suite is its
\* derived key; no secret is refused
CreateCipherSuite(self, key) == [ok |-> TRUE, suite |-> Kdf(key, Salt)]

\* the secrets an EncryptionService is built from
Secrets == {"", "s1", "s2"}

RECURSIVE Texts(_)
\* the texts of at most n characters
Texts(n) ==
    IF n = 0 THEN {<<>>}
    ELSE Texts(n - 1)
         \cup {<<c>> \o t : c \in {"a", "b"}, t \in {u \in Texts(n - 1) : Len(u) = n - 1}}

\* strings that are no token of any suite: a text, and a token cut short or
\* with a broken header
Malformed ==
    {<<"a">>, <<"a", "b", "a">>,
     <<Kdf("s1", Salt), "iv1">>,
     <<Kdf("s1", Salt), "a", "b">>}

----------------------------------------------------------------------------
(* services/embedding_service.py *)

\* one unit of similarity or distance is 1/Unit
Unit == 100000

\* the model's embedding of a text: a one-dimensional vector
ModelEncode(text) ==
    IF text = <<"a">> THEN <<0>>
    ELSE IF text = <<"b">> THEN <<33333>>
    ELSE <<150000>>

\* EmbeddingService.encode_text without a fault of the model: it raises on blank text
EncodeText(text) ==
    IF text = <<>> \/ Strip(text) = <<>> THEN [ok |-> FALSE, v |-> <<>>]
    ELSE [ok |-> TRUE, v |-> ModelEncode(Strip(text))]

BatchFaults == {"none", "encode"}

\* EmbeddingService.encode_texts after the model is loaded: the empty list is
\* answered with the empty list, the blank texts are dropped, and a list that
\* holds only blank texts raises
EncodeTexts(texts, fault) ==
    IF texts = <<>> THEN [ok |-> TRUE, v |-> <<>>]
    ELSE LET valid_texts == SelectStripped(texts)
         IN  IF valid_texts = <<>> \/ fault = "encode" THEN [ok |-> FALSE, v |-> <<>>]
             ELSE [ok |-> TRUE,
                   v |-> [i \in 1..Len(valid_texts) |-> ModelEncode(valid_texts[i])]]

----------------------------------------------------------------------------
(* services/vector_store.py *)

Min(a, b) == IF a < b THEN a ELSE b

Abs(a) == IF a < 0 THEN -a ELSE a

\* the chroma_metadata value of a metadata value: every value becomes a string
ToChroma(x) == IF x.t = "list" THEN Join(x.v) ELSE StrOf(x)

\* VectorStore.add_memory, the metadata preparation
ChromaMetadata(metadata) == [k \in DOMAIN metadata |-> ToChroma(metadata[k])]

\* an add_memory that replaces the collection by the one entry
VSAddMemoryAlone(idx, memory_id, embedding, text, metadata) ==
    [i \in {memory_id} |->
        [document |-> text, metadata |-> ChromaMetadata(metadata),
         embedding |-> embedding]]

\* the collection after add_memory(memory_id, embedding, text, metadata)
VSAddMemory(idx, memory_id, embedding, text, metadata) ==
    [i \in DOMAIN idx \cup {memory_id} |->
        IF i = memory_id
        THEN [document |-> text, metadata |-> ChromaMetadata(metadata),
              embedding |-> embedding]
        ELSE idx[i]]

\* VectorStore._process_metadata
ProcessMetadata(metadata) ==
    [k \in DOMAIN metadata |->
        IF k = "tags" THEN PyList(SplitTags(metadata[k])) ELSE PyStr(metadata[k])]

\* VectorStore.get_memory; found = FALSE stands for None
VSGetMemory(idx, memory_id) ==
    IF memory_id \in DOMAIN idx
    THEN [found |-> TRUE, document |-> idx[memory_id].document,
          metadata |-> ProcessMetadata(idx[memory_id].metadata)]
    ELSE [found |-> FALSE, document |-> <<>>, metadata |-> EmptyDict]

\* a delete_memory that reports success and leaves the entry in the collection
VSDeleteMemoryKeeps(idx, memory_id) == idx

\* the collection after VectorStore.delete_memory(memory_id)
VSDeleteMemory(idx, memory_id) == [i \in DOMAIN idx \ {memory_id} |-> idx[i]]

\* the engine's distance between two embeddings
Distance(e1, e2) == Abs(e1[1] - e2[1])

\* the where clause of search_memories: no clause for a falsy user_filter
WhereClause(user_filter) ==
    IF user_filter # <<>> THEN [on |-> TRUE, user_id |-> user_filter]
    ELSE [on |-> FALSE, user_id |-> <<>>]

\* the ids the where clause admits
WhereMatches(idx, where) ==
    {i \in DOMAIN idx :
        ~where.on \/ ("user_id" \in DOMAIN idx[i].metadata
                        /\ idx[i].metadata["user_id"] = where.user_id)}

\* collection.query: the answers the engine may give, each the n_results nearest
\* matching ids in order of distance (ties in either order)
CollectionQuery(idx, query_embedding, n_results, where) ==
    LET S == WhereMatches(idx, where)
        n == Cardinality(S)
        d(i) == Distance(query_embedding, idx[i].embedding)
        orders == {o \in [1..n -> S] :
                      /\ \A a, b \in 1..n : a # b => o[a] # o[b]
                      /\ \A a \in 1..(n - 1) : d(o[a]) <= d(o[a + 1])}
    IN  {SubSeq(o, 1, Min(n_results, n)) : o \in orders}

\* a similarity that takes the distance as it comes: 1.0 - distance
SimilarityUnclamped(distance) == Unit - distance

\* 1.0 - min(distance, 1.0)
Similarity(distance) == Unit - Min(distance, Unit)

\* all(tag in memory_tags for tag in tag_filter)
AllTagsIn(tag_filter, memory_tags) ==
    \A a \in 1..Len(tag_filter) : \E b \in 1..Len(memory_tags) :
        tag_filter[a] = memory_tags[b]

\* any(tag in memory_tags for tag in tag_filter)
AnyTagIn(tag_filter, memory_tags) ==
    \E a \in 1..Len(tag_filter) : \E b \in 1..Len(memory_tags) :
        tag_filter[a] = memory_tags[b]

\* the loop of search_memories over the engine's answer
RECURSIVE CollectMemories(_, _, _, _, _)
CollectMemories(idx, ids, query_embedding, min_similarity, tag_filter) ==
    IF ids = <<>> THEN <<>>
    ELSE LET memory_id == Head(ids)
             similarity == Similarity(Distance(query_embedding, idx[memory_id].embedding))
             processed == ProcessMetadata(idx[memory_id].metadata)
             memory_tags == IF "tags" \in DOMAIN processed THEN processed["tags"].v
                            ELSE <<>>
             rest == CollectMemories(idx, Tail(ids), query_embedding, min_similarity,
                                     tag_filter)
         IN  IF similarity < min_similarity THEN rest
             ELSE IF tag_filter # <<>> /\ ~AnyTagIn(tag_filter, memory_tags) THEN rest
             ELSE <<[id |-> memory_id, similarity |-> similarity,
                     document |-> idx[memory_id].document,
                     metadata |-> processed]>> \o rest

\* insertion of m into a list sorted by similarity descending, after its equals
RECURSIVE InsertDesc(_, _)
InsertDesc(sorted, m) ==
    IF sorted = <<>> THEN <<m>>
    ELSE IF Head(sorted).similarity >= m.similarity
         THEN <<Head(sorted)>> \o InsertDesc(Tail(sorted), m)
         ELSE <<m>> \o sorted

\* memories.sort(key=lambda x: x[1], reverse=True): a stable sort
RECURSIVE SortDesc(_)
SortDesc(memories) ==
    IF memories = <<>> THEN <<>>
    ELSE InsertDesc(SortDesc(SubSeq(memories, 1, Len(memories) - 1)),
                    memories[Len(memories)])

\* the answers of the query search_memories sends: limit * 2 results, filtered by
\* the where clause
VSQueryAnswers(idx, query_embedding, limit, user_filter) ==
    CollectionQuery(idx, query_embedding, limit * 2, WhereClause(user_filter))

\* a search_memories that sorts its memories and returns them all
VSSearchMemoriesAll(idx, ids, query_embedding, limit, min_similarity, tag_filter) ==
    SortDesc(CollectMemories(idx, ids, query_embedding, min_similarity, tag_filter))

\* VectorStore.search_memories on the engine's answer ids
VSSearchMemories(idx, ids, query_embedding, limit, min_similarity, tag_filter) ==
    LET memories == SortDesc(CollectMemories(idx, ids, query_embedding,
                                             min_similarity, tag_filter))
    IN  SubSeq(memories, 1, Min(limit, Len(memories)))

\* the settings the statistics quote
Settings == [app_version |-> "1.0.0", embedding_model |-> "all-MiniLM-L6-v2",
             embedding_dimension |-> 384,
             chroma_collection_name |-> "memory_embeddings"]

StatsFaults == {"none", "initialize", "count"}

\* VectorStore.get_collection_stats: initialize() runs before the try, so its
\* failure leaves the method; a failure of count() is caught and answered
\* with the empty dict
GetCollectionStats(idx, fault) ==
    IF fault = "initialize"
    THEN [raised |-> TRUE, message |-> "initialize", stats |-> EmptyDict]
    ELSE IF fault = "count"
    THEN [raised |-> FALSE, message |-> "", stats |-> EmptyDict]
    ELSE [raised |-> FALSE, message |-> "",
          stats |-> [total_memories |-> PyInt(Cardinality(DOMAIN idx)),
                     collection_name |-> PyStr(Settings.chroma_collection_name),
                     embedding_dimension |-> PyInt(Settings.embedding_dimension)]]

----------------------------------------------------------------------------
(* services/memory_service.py *)

\* round(similarity, 4)
Round4(x) == ((x + 5) \div 10) * 10

NoEntry == [id |-> 0, text |-> <<>>, tags |-> <<>>, timestamp |-> 0,
            user_id |-> <<>>, metadata |-> EmptyDict]

\* the return value None
None == [found |-> FALSE, raised |-> FALSE, entry |-> NoEntry]

\* storage_metadata of add_memory: the caller's metadata is spread last
StorageMetadata(request, timestamp) ==
    DictMerge([k \in ReservedKeys |->
                  IF k = "user_id" THEN PyStr(request.user_id)
                  ELSE IF k = "tags" THEN PyList(request.tags)
                  ELSE PyStr(IsoFormat(timestamp))],
              request.metadata)

\* an add_memory that writes the collection before it encrypts the text
AddOutcomePutFirst(idx, p, iv, fault) ==
    IF fault = "embed" \/ ~EncodeText(p.request.text).ok
    THEN [status |-> "StorageError", index |-> idx, calls |-> {"embed"}]
    ELSE LET stored == VSAddMemory(idx, p.id, EncodeText(p.request.text).v,
                                   Encrypt(ServiceKey, iv, p.request.text),
                                   StorageMetadata(p.request, p.timestamp))
         IN  IF fault = "put"
             THEN [status |-> "StorageError", index |-> idx, calls |-> {"embed", "put"}]
             ELSE IF fault = "encrypt"
             THEN [status |-> "StorageError", index |-> stored,
                   calls |-> {"embed", "put", "encrypt"}]
             ELSE [status |-> "ok", index |-> stored,
                   calls |-> {"embed", "put", "encrypt"}]

\* an add_memory that encrypts the text before it asks for the embedding
AddOutcomeEncryptFirst(idx, p, iv, fault) ==
    IF fault = "encrypt"
    THEN [status |-> "StorageError", index |-> idx, calls |-> {"encrypt"}]
    ELSE IF fault = "embed" \/ ~EncodeText(p.request.text).ok
    THEN [status |-> "StorageError", index |-> idx, calls |-> {"encrypt", "embed"}]
    ELSE IF fault = "put"
    THEN [status |-> "StorageError", index |-> idx,
          calls |-> {"embed", "encrypt", "put"}]
    ELSE [status |-> "ok",
          index |-> VSAddMemory(idx, p.id, EncodeText(p.request.text).v,
                                Encrypt(ServiceKey, iv, p.request.text),
                                StorageMetadata(p.request, p.timestamp)),
          calls |-> {"embed", "encrypt", "put"}]

\* an add_memory that hands the text itself to the vector store
AddOutcomePlain(idx, p, iv, fault) ==
    IF fault = "embed" \/ ~EncodeText(p.request.text).ok
    THEN [status |-> "StorageError", index |-> idx, calls |-> {"embed"}]
    ELSE IF fault = "encrypt"
    THEN [status |-> "StorageError", index |-> idx, calls |-> {"embed", "encrypt"}]
    ELSE IF fault = "put"
    THEN [status |-> "StorageError", index |-> idx,
          calls |-> {"embed", "encrypt", "put"}]
    ELSE [status |-> "ok",
          index |-> VSAddMemory(idx, p.id, EncodeText(p.request.text).v,
                                p.request.text,
                                StorageMetadata(p.request, p.timestamp)),
          calls |-> {"embed", "encrypt", "put"}]

\* add_memory from the return of encode_text on: its status, the collection it
\* leaves and the collaborator calls it made.  fault names the step that raises.
AddOutcome(idx, p, iv, fault) ==
    IF fault = "embed" \/ ~EncodeText(p.request.text).ok
    THEN [status |-> "StorageError", index |-> idx, calls |-> {"embed"}]
    ELSE IF fault = "encrypt"
    THEN [status |-> "StorageError", index |-> idx, calls |-> {"embed", "encrypt"}]
    ELSE IF fault = "put"
    THEN [status |-> "StorageError", index |-> idx,
          calls |-> {"embed", "encrypt", "put"}]
    ELSE [status |-> "ok",
          index |-> VSAddMemory(idx, p.id, EncodeText(p.request.text).v,
                                Encrypt(ServiceKey, iv, p.request.text),
                                StorageMetadata(p.request, p.timestamp)),
          calls |-> {"embed", "encrypt", "put"}]

\* the loop of search_memories over the vector store's results: a result whose
\* decryption, timestamp or score is refused is skipped
RECURSIVE BuildResults(_, _)
BuildResults(results, utcnow) ==
    IF results = <<>> THEN <<>>
    ELSE LET r == Head(results)
             dec == Decrypt(ServiceKey, r.document)
             stamp == IF "timestamp" \in DOMAIN r.metadata
                      THEN r.metadata["timestamp"].v ELSE IsoFormat(utcnow)
             tags == IF "tags" \in DOMAIN r.metadata THEN r.metadata["tags"].v
                     ELSE <<>>
             score == Round4(r.similarity)
             rest == BuildResults(Tail(results), utcnow)
         IN  IF ~dec.ok \/ ~IsIso(stamp) \/ score < 0 \/ score > Unit THEN rest
             ELSE <<[id |-> r.id, text |-> dec.v, tags |-> tags,
                     timestamp |-> FromIsoFormat(stamp),
                     similarity_score |-> score,
                     metadata |-> StripReserved(r.metadata)]>> \o rest

\* a search_memories in which the failure of one result's decryption leaves the
\* loop and fails the search
SearchOutcomeDecryptRaises(idx, request, ids, utcnow, fault) ==
    IF fault = "embed" \/ ~EncodeText(request.query).ok
    THEN [status |-> "StorageError", results |-> <<>>, calls |-> {"embed"}]
    ELSE IF fault = "query"
    THEN [status |-> "StorageError", results |-> <<>>, calls |-> {"embed", "query"}]
    ELSE LET found == VSSearchMemories(idx, ids, EncodeText(request.query).v,
                                       request.limit, request.min_similarity,
                                       request.tags)
         IN  IF \E k \in 1..Len(found) : ~Decrypt(ServiceKey, found[k].document).ok
             THEN [status |-> "StorageError", results |-> <<>>,
                   calls |-> {"embed", "query"}]
             ELSE [status |-> "ok", results |-> BuildResults(found, utcnow),
                   calls |-> {"embed", "query"}]

\* a search_memories that answers a failed query of the collection with the
\* empty list
SearchOutcomeSwallows(idx, request, ids, utcnow, fault) ==
    IF fault = "embed" \/ ~EncodeText(request.query).ok
    THEN [status |-> "StorageError", results |-> <<>>, calls |-> {"embed"}]
    ELSE IF fault = "query"
    THEN [status |-> "ok", results |-> <<>>, calls |-> {"embed", "query"}]
    ELSE [status |-> "ok",
          results |-> BuildResults(
              VSSearchMemories(idx, ids, EncodeText(request.query).v, request.limit,
                               request.min_similarity, request.tags),
              utcnow),
          calls |-> {"embed", "query"}]

\* search_memories from the return of encode_text on; ids is the engine's answer
SearchOutcome(idx, request, ids, utcnow, fault) ==
    IF fault = "embed" \/ ~EncodeText(request.query).ok
    THEN [status |-> "StorageError", results |-> <<>>, calls |-> {"embed"}]
    ELSE IF fault = "query"
    THEN [status |-> "StorageError", results |-> <<>>, calls |-> {"embed", "query"}]
    ELSE [status |-> "ok",
          results |-> BuildResults(
              VSSearchMemories(idx, ids, EncodeText(request.query).v, request.limit,
                               request.min_similarity, request.tags), utcnow),
          calls |-> {"embed", "query"}]

\* a get_memory whose decryption failure reaches the caller
GetOwnedRaises(result, memory_id, user_id, utcnow) ==
    LET dec == Decrypt(ServiceKey, result.document)
        stamp == IF "timestamp" \in DOMAIN result.metadata
                 THEN result.metadata["timestamp"].v ELSE IsoFormat(utcnow)
        tags == IF "tags" \in DOMAIN result.metadata
                THEN result.metadata["tags"].v ELSE <<>>
    IN  IF ~dec.ok THEN [found |-> FALSE, raised |-> TRUE, entry |-> NoEntry]
        ELSE IF ~IsIso(stamp) \/ ~EntryValidateText(dec.v).ok THEN None
        ELSE [found |-> TRUE, raised |-> FALSE,
              entry |-> MemoryEntry(memory_id, dec.v, tags, FromIsoFormat(stamp),
                                    user_id, StripReserved(result.metadata))]

\* get_memory after the ownership check: decrypt, parse and assemble; any
\* exception becomes None
GetOwned(result, memory_id, user_id, utcnow) ==
    LET dec == Decrypt(ServiceKey, result.document)
        stamp == IF "timestamp" \in DOMAIN result.metadata
                 THEN result.metadata["timestamp"].v ELSE IsoFormat(utcnow)
        tags == IF "tags" \in DOMAIN result.metadata
                THEN result.metadata["tags"].v ELSE <<>>
    IN  IF ~dec.ok \/ ~IsIso(stamp) \/ ~EntryValidateText(dec.v).ok THEN None
        ELSE [found |-> TRUE, raised |-> FALSE,
              entry |-> MemoryEntry(memory_id, dec.v, tags, FromIsoFormat(stamp),
                                    user_id, StripReserved(result.metadata))]

\* a get_memory that raises on an ownership mismatch
GetMemoryRaises(idx, memory_id, user_id, utcnow, fault) ==
    LET result == VSGetMemory(idx, memory_id) IN
    IF fault = "read" \/ ~result.found THEN None
    ELSE IF "user_id" \notin DOMAIN result.metadata
            \/ result.metadata["user_id"].v # user_id
    THEN [found |-> FALSE, raised |-> TRUE, entry |-> NoEntry]
    ELSE GetOwned(result, memory_id, user_id, utcnow)

\* MemoryService.get_memory; fault = "read" is a failing read of the collection,
\* which VectorStore.get_memory turns into None
GetMemory(idx, memory_id, user_id, utcnow, fault) ==
    LET result == VSGetMemory(idx, memory_id) IN
    IF fault = "read" \/ ~result.found THEN None
    ELSE IF "user_id" \notin DOMAIN result.metadata
            \/ result.metadata["user_id"].v # user_id THEN None
    ELSE GetOwned(result, memory_id, user_id, utcnow)

\* a delete_memory that skips the get_memory check
DeleteOutcomeUnchecked(idx, memory_id, user_id, utcnow, fault) ==
    IF fault = "delete" \/ memory_id \notin DOMAIN idx
    THEN [success |-> FALSE, index |-> idx, calls |-> {"getById", "deleteById"}]
    ELSE [success |-> TRUE, index |-> VSDeleteMemory(idx, memory_id),
          calls |-> {"getById", "deleteById"}]

\* a delete_memory whose get_memory answer is out of date when the vector
\* store deletes: deleting an id the collection does not hold succeeds too
DeleteOutcomeStale(idx, memory_id, user_id, utcnow, fault) ==
    IF fault = "read"
    THEN [success |-> FALSE, index |-> idx, calls |-> {"getById"}]
    ELSE IF fault = "delete"
    THEN [success |-> FALSE, index |-> idx, calls |-> {"getById", "deleteById"}]
    ELSE [success |-> TRUE, index |-> [i \in DOMAIN idx \ {memory_id} |-> idx[i]],
          calls |-> {"getById", "deleteById"}]

\* MemoryService.delete_memory: its return value, the collection it leaves and
\* the collaborator calls it made
DeleteOutcome(idx, memory_id, user_id, utcnow, fault) ==
    IF ~GetMemory(idx, memory_id, user_id, utcnow, fault).found
    THEN [success |-> FALSE, index |-> idx, calls |-> {"getById"}]
    ELSE IF fault = "delete"
    THEN [success |-> FALSE, index |-> idx, calls |-> {"getById", "deleteById"}]
    ELSE [success |-> TRUE, index |-> VSDeleteMemory(idx, memory_id),
          calls |-> {"getById", "deleteById"}]

\* MemoryService.get_user_memories_count: the SearchMemoryRequest it builds
\* first has the empty query, which validate_query refuses; the except branch
\* answers 0. Past that request it would answer the collection's total.
GetUserMemoriesCount(idx, user_id, fault) ==
    IF ~ValidateQuery(<<>>).ok THEN 0
    ELSE LET s == GetCollectionStats(idx, fault)
         IN  IF s.raised THEN 0
             ELSE IF "total_memories" \in DOMAIN s.stats
                  THEN s.stats["total_memories"].v
                  ELSE 0

\* MemoryService.get_service_stats
GetServiceStats(idx, fault) ==
    LET s == GetCollectionStats(idx, fault)
    IN  IF s.raised THEN [error |-> PyStr(s.message)]
        ELSE DictMerge(
                 DictMerge([service_name |-> PyStr("MemoryLink Memory Service"),
                            version |-> PyStr(Settings.app_version),
                            embedding_model |-> PyStr(Settings.embedding_model),
                            embedding_dimension |-> PyInt(Settings.embedding_dimension)],
                           s.stats),
                 [encryption_enabled |-> PyStr("True")])

----------------------------------------------------------------------------
(* The callers' inputs *)

Clock == 0..MaxClock

Owners == {<<>>, <<"u">>, <<"v">>}

\* the arguments of the add calls: the texts and tag lists of one user, the other
\* owners, the caller metadata that collides with a key the pipeline reserves,
\* and the blank texts
AddInputs ==
    {[text |-> t, tags |-> g, user_id |-> <<"u">>, metadata |-> EmptyDict] :
        t \in {<<"a">>, <<" ", "b">>}, g \in {<<>>, << <<" ", "A">>, <<>> >>}}
    \cup {[text |-> <<"a">>, tags |-> <<>>, user_id |-> o, metadata |-> EmptyDict] :
            o \in Owners}
    \cup {[text |-> <<"a">>, tags |-> <<>>, user_id |-> <<"u">>, metadata |-> m] :
            m \in {"user_id" :> PyStr(<<"v">>), "timestamp" :> PyStr(<<"x">>)}}
    \cup {[text |-> t, tags |-> <<>>, user_id |-> <<"u">>, metadata |-> EmptyDict] :
            t \in {<<>>, <<" ">>}}

\* the arguments of the search calls: every owner with both limits, a similarity
\* threshold, a tag filter and a blank query
SearchInputs ==
    {[query |-> <<"a", " ">>, user_id |-> o, limit |-> l, min_similarity |-> 0,
      tags |-> <<>>] : o \in Owners, l \in {1, 2}}
    \cup {[query |-> <<"a">>, user_id |-> <<"u">>, limit |-> 2,
           min_similarity |-> 70000, tags |-> <<>>],
          [query |-> <<"a">>, user_id |-> <<"u">>, limit |-> 2,
           min_similarity |-> 0, tags |-> << <<"A">> >>],
          [query |-> <<" ">>, user_id |-> <<"u">>, limit |-> 1,
           min_similarity |-> 0, tags |-> <<>>]}

AddFaults == {"none", "embed", "encrypt", "put"}
SearchFaults == {"none", "embed", "query"}
GetFaults == {"none", "read"}
DeleteFaults == {"none", "read", "delete"}

----------------------------------------------------------------------------
(* The lazily initialised collaborators: api/memory_routes.py,                *)
(* services/embedding_service.py, services/vector_store.py                  *)

\* EmbeddingService.__init__ and VectorStore.__init__: no model, a free lock
\* (0: no holder), no client, no collection
NewService == [model |-> FALSE, lock |-> 0, client |-> FALSE, collection |-> FALSE]

NoTask == [pc |-> "idle", svc |-> 0]

\* the process before its first request; exists tells whether the collection
\* of chroma_db_path exists from an earlier run
ProcessStart(exists) ==
    /\ services = [s \in {} |-> NewService]
    /\ tasks = [t \in 1..MaxTasks |-> NoTask]
    /\ backend = [loads |-> 0, clients |-> 0, creates |-> 0, exists |-> exists]

\* VectorStore.initialize on an instance: the instance and the process it leaves
VSInitialize(svc, be) ==
    IF ~svc.client
    THEN [svc |-> [svc EXCEPT !.client = TRUE, !.collection = TRUE],
          backend |-> [be EXCEPT !.clients = @ + 1,
                                 !.creates = IF be.exists THEN @ ELSE @ + 1,
                                 !.exists = TRUE]]
    ELSE [svc |-> svc, backend |-> be]

\* get_memory_service, the dependency of every memory route: a new
\* MemoryService, then its initialize; nothing in it suspends
GetMemoryService ==
    /\ Cardinality(DOMAIN services) < MaxServices
    /\ LET s == Cardinality(DOMAIN services) + 1
           o == VSInitialize(NewService, backend)
       IN  /\ services' = [i \in DOMAIN services \cup {s} |->
                              IF i = s THEN o.svc ELSE services[i]]
           /\ backend' = o.backend
    /\ UNCHANGED tasks
    /\ UNCHANGED memVars

\* MemoryService.initialize called again on an instance
Initialize(s) ==
    /\ s \in DOMAIN services
    /\ LET o == VSInitialize(services[s], backend)
       IN  /\ services' = [services EXCEPT ![s] = o.svc]
           /\ backend' = o.backend
    /\ UNCHANGED tasks
    /\ UNCHANGED memVars

\* encode_text of instance s up to its first suspension: in run_in_executor
\* with the model loading, in the wait for the lock, or in run_in_executor with
\* the model encoding
EncodeBegin(t, s) ==
    /\ tasks[t].pc = "idle"
    /\ s \in DOMAIN services
    /\ IF services[s].model
       THEN /\ tasks' = [tasks EXCEPT ![t] = [pc |-> "encoding", svc |-> s]]
            /\ UNCHANGED <<services, backend>>
       ELSE IF services[s].lock = 0
       THEN /\ tasks' = [tasks EXCEPT ![t] = [pc |-> "loading", svc |-> s]]
            /\ services' = [services EXCEPT ![s].lock = t]
            /\ backend' = [backend EXCEPT !.loads = @ + 1]
       ELSE /\ tasks' = [tasks EXCEPT ![t] = [pc |-> "waiting", svc |-> s]]
            /\ UNCHANGED <<services, backend>>
    /\ UNCHANGED memVars

\* the executor returns the loaded model: it is kept, the lock is released and
\* encode_text goes on to encode
LoadDone(t) ==
    /\ tasks[t].pc = "loading"
    /\ services' = [services EXCEPT ![tasks[t].svc].model = TRUE,
                                    ![tasks[t].svc].lock = 0]
    /\ tasks' = [tasks EXCEPT ![t].pc = "encoding"]
    /\ UNCHANGED backend
    /\ UNCHANGED memVars

\* a waiting caller gets the lock and checks the model again
LockAcquired(t) ==
    /\ tasks[t].pc = "waiting"
    /\ services[tasks[t].svc].lock = 0
    /\ IF services[tasks[t].svc].model
       THEN /\ tasks' = [tasks EXCEPT ![t].pc = "encoding"]
            /\ UNCHANGED <<services, backend>>
       ELSE /\ tasks' = [tasks EXCEPT ![t].pc = "loading"]
            /\ services' = [services EXCEPT ![tasks[t].svc].lock = t]
            /\ backend' = [backend EXCEPT !.loads = @ + 1]
    /\ UNCHANGED memVars

\* the executor returns the embedding: encode_text returns
EncodeDone(t) ==
    /\ tasks[t].pc = "encoding"
    /\ tasks' = [tasks EXCEPT ![t] = NoTask]
    /\ UNCHANGED <<services, backend>>
    /\ UNCHANGED memVars

----------------------------------------------------------------------------
(* The state machine *)

NoRet == [op |-> "none", status |-> "ok", fault |-> "none", arg |-> <<>>,
          out |-> <<>>, calls |-> {}]

Init ==
    /\ index = [i \in {} |-> 0]
    /\ adding = {}
    /\ searching = {}
    /\ nextId = 1
    /\ added = [i \in {} |-> NoEntry]
    /\ deleted = {}
    /\ ret = NoRet
    /\ ProcessStart(FALSE)

\* AddMemoryRequest refuses the text: nothing of add_memory runs
AddRejected(text, tags, user_id, metadata) ==
    /\ ~ValidateText(text).ok
    /\ ret' = [op |-> "add", status |-> "ValidationError", fault |-> "none",
               arg |-> [id |-> 0, text |-> text, user_id |-> user_id],
               out |-> NoEntry, calls |-> {}]
    /\ UNCHANGED <<index, adding, searching, nextId, added, deleted>>
    /\ UNCHANGED procVars

\* add_memory up to its suspension in encode_text
AddCall(text, tags, user_id, metadata, utcnow) ==
    /\ ValidateText(text).ok
    /\ nextId <= MaxIds
    /\ LET request == AddMemoryRequest(text, tags, user_id, metadata)
           entry == MemoryEntry(nextId, request.text, request.tags, utcnow,
                                request.user_id, request.metadata)
       IN  adding' = adding \cup {[id |-> nextId, timestamp |-> utcnow,
                                   request |-> request, entry |-> entry]}
    /\ nextId' = nextId + 1
    /\ ret' = NoRet
    /\ UNCHANGED <<index, searching, added, deleted>>
    /\ UNCHANGED procVars

\* an add_memory call entered while fewer than MaxPending calls are suspended
AddBegin(text, tags, user_id, metadata, utcnow) ==
    /\ Cardinality(adding) + Cardinality(searching) < MaxPending
    /\ AddCall(text, tags, user_id, metadata, utcnow)

\* add_memory from the return of encode_text to its return or raise
AddResume(p, iv, fault) ==
    /\ p \in adding
    /\ LET o == AddOutcome(index, p, iv, fault) IN
        /\ index' = o.index
        /\ added' = IF o.status = "ok"
                    THEN [i \in DOMAIN added \cup {p.id} |->
                             IF i = p.id THEN p.entry ELSE added[i]]
                    ELSE added
        /\ ret' = [op |-> "add", status |-> o.status, fault |-> fault,
                   arg |-> [id |-> p.id, text |-> p.request.text,
                            user_id |-> p.request.user_id],
                   out |-> IF o.status = "ok" THEN p.entry ELSE NoEntry,
                   calls |-> o.calls]
    /\ adding' = adding \ {p}
    /\ UNCHANGED <<searching, nextId, deleted>>
    /\ UNCHANGED procVars

\* SearchMemoryRequest refuses the query: nothing of search_memories runs
SearchRejected(query, user_id) ==
    /\ ~ValidateQuery(query).ok
    /\ ret' = [op |-> "search", status |-> "ValidationError", fault |-> "none",
               arg |-> [query |-> query, user_id |-> user_id],
               out |-> <<>>, calls |-> {}]
    /\ UNCHANGED <<index, adding, searching, nextId, added, deleted>>
    /\ UNCHANGED procVars

\* search_memories up to its suspension in encode_text
SearchBegin(query, user_id, limit, min_similarity, tags) ==
    /\ ValidateQuery(query).ok
    /\ Cardinality(adding) + Cardinality(searching) < MaxPending
    /\ searching' = searching
          \cup {SearchMemoryRequest(query, user_id, limit, min_similarity, tags)}
    /\ ret' = NoRet
    /\ UNCHANGED <<index, adding, nextId, added, deleted>>
    /\ UNCHANGED procVars

\* search_memories from the return of encode_text to its return or raise
SearchResume(request, ids, utcnow, fault) ==
    /\ request \in searching
    /\ ids \in VSQueryAnswers(index, EncodeText(request.query).v, request.limit,
                              request.user_id)
    /\ LET o == SearchOutcome(index, request, ids, utcnow, fault) IN
        ret' = [op |-> "search", status |-> o.status, fault |-> fault,
                arg |-> request,
                out |-> o.results, calls |-> o.calls]
    /\ searching' = searching \ {request}
    /\ UNCHANGED <<index, adding, nextId, added, deleted>>
    /\ UNCHANGED procVars

\* a get_memory that removes from the collection the entry it does not return
GetAndEvict(memory_id, user_id, utcnow, fault) ==
    /\ ret' = [op |-> "get", status |-> "ok", fault |-> fault,
               arg |-> [id |-> memory_id, user_id |-> user_id],
               out |-> GetMemory(index, memory_id, user_id, utcnow, fault),
               calls |-> {"getById"}]
    /\ index' = IF GetMemory(index, memory_id, user_id, utcnow, fault).found
                THEN index
                ELSE [i \in DOMAIN index \ {memory_id} |-> index[i]]
    /\ UNCHANGED <<adding, searching, nextId, added, deleted>>
    /\ UNCHANGED procVars

\* get_memory: it never suspends
Get(memory_id, user_id, utcnow, fault) ==
    /\ ret' = [op |-> "get", status |-> "ok", fault |-> fault,
               arg |-> [id |-> memory_id, user_id |-> user_id],
               out |-> GetMemory(index, memory_id, user_id, utcnow, fault),
               calls |-> {"getById"}]
    /\ UNCHANGED <<index, adding, searching, nextId, added, deleted>>
    /\ UNCHANGED procVars

\* delete_memory: it never suspends
Delete(memory_id, user_id, utcnow, fault) ==
    /\ LET o == DeleteOutcome(index, memory_id, user_id, utcnow, fault) IN
        /\ index' = o.index
        /\ deleted' = IF o.success THEN deleted \cup {memory_id} ELSE deleted
        /\ ret' = [op |-> "delete", status |-> "ok", fault |-> fault,
                   arg |-> [id |-> memory_id, user_id |-> user_id],
                   out |-> o.success, calls |-> o.calls]
        /\ added' = IF o.success THEN [i \in DOMAIN added \ {memory_id} |-> added[i]]
                    ELSE added
    /\ UNCHANGED <<adding, searching, nextId>>
    /\ UNCHANGED procVars

\* get_user_memories_count: it never suspends
Count(user_id, fault) ==
    /\ ret' = [op |-> "count", status |-> "ok", fault |-> fault,
               arg |-> [user_id |-> user_id],
               out |-> GetUserMemoriesCount(index, user_id, fault),
               calls |-> {}]
    /\ UNCHANGED <<index, adding, searching, nextId, added, deleted>>
    /\ UNCHANGED procVars

\* get_service_stats: it never suspends
Stats(fault) ==
    /\ ret' = [op |-> "stats", status |-> "ok", fault |-> fault,
               arg |-> <<>>,
               out |-> GetServiceStats(index, fault),
               calls |-> IF fault = "initialize" THEN {} ELSE {"count"}]
    /\ UNCHANGED <<index, adding, searching, nextId, added, deleted>>
    /\ UNCHANGED procVars

\* encode_texts from the loaded model to its return or raise
EncodeTextsCall(texts, fault) ==
    /\ LET o == EncodeTexts(texts, fault) IN
        ret' = [op |-> "embedBatch", status |-> IF o.ok THEN "ok" ELSE "ValueError",
                fault |-> fault, arg |-> [texts |-> texts], out |-> o.v,
                calls |-> {}]
    /\ UNCHANGED <<index, adding, searching, nextId, added, deleted>>
    /\ UNCHANGED procVars

Next ==
    \/ \E a \in AddInputs : AddRejected(a.text, a.tags, a.user_id, a.metadata)
    \/ \E a \in AddInputs, utcnow \in Clock :
          AddBegin(a.text, a.tags, a.user_id, a.metadata, utcnow)
    \/ \E p \in adding, iv \in IVs, fault \in AddFaults : AddResume(p, iv, fault)
    \/ \E s \in SearchInputs : SearchRejected(s.query, s.user_id)
    \/ \E s \in SearchInputs :
          SearchBegin(s.query, s.user_id, s.limit, s.min_similarity, s.tags)
    \/ \E request \in searching, utcnow \in Clock, fault \in SearchFaults :
          \E ids \in VSQueryAnswers(index, EncodeText(request.query).v, request.limit,
                                    request.user_id) :
              SearchResume(request, ids, utcnow, fault)
    \/ \E memory_id \in 1..MaxIds, user_id \in Owners, utcnow \in Clock,
          fault \in GetFaults :
          Get(memory_id, user_id, utcnow, fault)
    \/ \E memory_id \in 1..MaxIds, user_id \in Owners, utcnow \in Clock,
          fault \in DeleteFaults :
          Delete(memory_id, user_id, utcnow, fault)

Spec == Init /\ [][Next]_vars

----------------------------------------------------------------------------
(* A process started over a persisted collection *)

\* what add_memory of a process with the given key stored for an add call
PersistedRecord(key, a) ==
    LET request == AddMemoryRequest(a.text, a.tags, a.user_id, a.metadata)
    IN  VSAddMemory([i \in {} |-> 0], 1, EncodeText(request.text).v,
                    Encrypt(key, CHOOSE iv \in IVs : TRUE, request.text),
                    StorageMetadata(request, 0))[1]

\* the entries a persisted collection may hold: three texts of user u written
\* under this process's key, the nearest and the farthest of them written under
\* an earlier key, and a tagged one
PersistedRecords ==
    {PersistedRecord(ServiceKey, [text |-> t, tags |-> <<>>, user_id |-> <<"u">>,
                                  metadata |-> EmptyDict]) :
        t \in {<<"a">>, <<"b">>, <<"c">>}}
    \cup {PersistedRecord(EarlierKey, [text |-> t, tags |-> <<>>,
                                       user_id |-> <<"u">>, metadata |-> EmptyDict]) :
            t \in {<<"a">>, <<"c">>}}
    \cup {PersistedRecord(ServiceKey, [text |-> <<"b">>, tags |-> << <<"x">> >>,
                                       user_id |-> <<"u">>, metadata |-> EmptyDict])}

\* the collections the process may find in chroma_db_path when it starts
PersistedIndexes ==
    UNION {[1..n -> PersistedRecords] : n \in 0..MaxStored}

\* the search calls made over it: the limits around the number of entries, a
\* similarity threshold and a tag filter
RestartSearchInputs ==
    {[query |-> <<"a">>, user_id |-> <<"u">>, limit |-> l, min_similarity |-> 0,
      tags |-> <<>>] : l \in 1..MaxStored}
    \cup {[query |-> <<"a">>, user_id |-> <<"u">>, limit |-> MaxStored,
           min_similarity |-> 50000, tags |-> <<>>],
          [query |-> <<"a">>, user_id |-> <<"u">>, limit |-> MaxStored,
           min_similarity |-> 0, tags |-> << <<"X">> >>]}

RestartInit ==
    /\ index \in PersistedIndexes
    /\ adding = {}
    /\ searching = {}
    /\ nextId = MaxStored + 1
    /\ added = [i \in {} |-> NoEntry]
    /\ deleted = {}
    /\ ret = NoRet
    /\ ProcessStart(TRUE)

RestartNext ==
    \/ \E s \in RestartSearchInputs :
          SearchBegin(s.query, s.user_id, s.limit, s.min_similarity, s.tags)
    \/ \E request \in searching, utcnow \in Clock, fault \in SearchFaults :
          \E ids \in VSQueryAnswers(index, EncodeText(request.query).v, request.limit,
                                    request.user_id) :
              SearchResume(request, ids, utcnow, fault)
    \/ \E memory_id \in 1..(MaxStored + 1), user_id \in {<<"u">>, <<"v">>},
          utcnow \in Clock, fault \in GetFaults :
          Get(memory_id, user_id, utcnow, fault)

RestartSpec == RestartInit /\ [][RestartNext]_vars

----------------------------------------------------------------------------
(* Searches with a tag filter over a persisted collection *)

\* the entries of user u the tag filter meets: the tag lists with none, one and
\* two of the tags x and y, a tag that holds the delimiter, and a tagged entry
\* written under an earlier key
FilterRecords ==
    {PersistedRecord(ServiceKey, [text |-> <<"a">>, tags |-> g, user_id |-> <<"u">>,
                                  metadata |-> EmptyDict]) :
        g \in {<<>>, << <<"x">> >>}}
    \cup {PersistedRecord(ServiceKey, [text |-> <<"b">>, tags |-> g,
                                       user_id |-> <<"u">>, metadata |-> EmptyDict]) :
            g \in {<< <<"y">> >>, << <<"y", ",", "z">> >>}}
    \cup {PersistedRecord(ServiceKey, [text |-> <<"c">>,
                                       tags |-> << <<"x">>, <<"y">> >>,
                                       user_id |-> <<"u">>, metadata |-> EmptyDict]),
          PersistedRecord(EarlierKey, [text |-> <<"c">>, tags |-> << <<"x">> >>,
                                       user_id |-> <<"u">>, metadata |-> EmptyDict])}

FilterIndexes ==
    UNION {[1..n -> FilterRecords] : n \in 0..MaxStored}

\* the tag filters of the search calls: absent, blank, one tag, and two tags of
\* which the entries hold one, both or none
TagFilters ==
    {<<>>, << <<" ">> >>, << <<" ", "X">> >>, << <<"x">>, <<"w">> >>,
     << <<"y">>, <<"x">> >>, << <<"w">> >>}

FilterSearchInputs ==
    {[query |-> <<"a">>, user_id |-> <<"u">>, limit |-> MaxStored,
      min_similarity |-> 0, tags |-> g] : g \in TagFilters}

FilterInit ==
    /\ index \in FilterIndexes
    /\ adding = {}
    /\ searching = {}
    /\ nextId = MaxStored + 1
    /\ added = [i \in {} |-> NoEntry]
    /\ deleted = {}
    /\ ret = NoRet
    /\ ProcessStart(TRUE)

FilterNext ==
    \/ \E s \in FilterSearchInputs :
          SearchBegin(s.query, s.user_id, s.limit, s.min_similarity, s.tags)
    \/ \E request \in searching, utcnow \in Clock :
          \E ids \in VSQueryAnswers(index, EncodeText(request.query).v, request.limit,
                                    request.user_id) :
              SearchResume(request, ids, utcnow, "none")

FilterSpec == FilterInit /\ [][FilterNext]_vars

----------------------------------------------------------------------------
(* The requests of a process and their collaborators *)

ProcessInit ==
    /\ index = [i \in {} |-> 0]
    /\ adding = {}
    /\ searching = {}
    /\ nextId = 1
    /\ added = [i \in {} |-> NoEntry]
    /\ deleted = {}
    /\ ret = NoRet
    /\ \E e \in BOOLEAN : ProcessStart(e)

ProcessNext ==
    \/ GetMemoryService
    \/ \E s \in 1..MaxServices : Initialize(s)
    \/ \E t \in 1..MaxTasks, s \in 1..MaxServices : EncodeBegin(t, s)
    \/ \E t \in 1..MaxTasks : LoadDone(t)
    \/ \E t \in 1..MaxTasks : LockAcquired(t)
    \/ \E t \in 1..MaxTasks : EncodeDone(t)

ProcessSpec == ProcessInit /\ [][ProcessNext]_vars

----------------------------------------------------------------------------
(* A VectorStore whose initialization may fail *)

\* the calls of initialize that may raise: chromadb.Client, get_collection
\* (with an error other than the ValueError of a missing collection) and
\* create_collection
InitFaults == {"none", "client", "get", "create"}

\* VectorStore.initialize with a failing call: _client is assigned before the
\* collection is fetched or created, and nothing resets it when that raises
VSInitializeOutcome(svc, be, fault) ==
    IF svc.client THEN [svc |-> svc, backend |-> be, raised |-> FALSE]
    ELSE IF fault = "client" THEN [svc |-> svc, backend |-> be, raised |-> TRUE]
    ELSE IF fault = "get" \/ (fault = "create" /\ ~be.exists)
    THEN [svc |-> [svc EXCEPT !.client = TRUE],
          backend |-> [be EXCEPT !.clients = @ + 1], raised |-> TRUE]
    ELSE [svc |-> VSInitialize(svc, be).svc,
          backend |-> VSInitialize(svc, be).backend, raised |-> FALSE]

\* VectorStore(): an instance with no client and no collection
NewVectorStore ==
    /\ Cardinality(DOMAIN services) < MaxServices
    /\ LET s == Cardinality(DOMAIN services) + 1
       IN  services' = [i \in DOMAIN services \cup {s} |->
                           IF i = s THEN NewService ELSE services[i]]
    /\ ret' = NoRet
    /\ UNCHANGED <<index, adding, searching, nextId, added, deleted, tasks, backend>>

\* initialize() of the instance s
InitializeCall(s, fault) ==
    /\ s \in DOMAIN services
    /\ LET o == VSInitializeOutcome(services[s], backend, fault)
       IN  /\ services' = [services EXCEPT ![s] = o.svc]
           /\ backend' = o.backend
           /\ ret' = [op |-> "initialize",
                      status |-> IF o.raised THEN "Exception" ELSE "ok",
                      fault |-> fault, arg |-> [self |-> s], out |-> <<>>,
                      calls |-> {}]
    /\ UNCHANGED <<index, adding, searching, nextId, added, deleted, tasks>>

\* get_memory(memory_id) of the instance s: initialize(), then the read of
\* self._collection inside the try; with no collection the read raises
\* AttributeError, which the except answers with None
StoreGetCall(s, memory_id, fault) ==
    /\ s \in DOMAIN services
    /\ LET o == VSInitializeOutcome(services[s], backend, fault)
       IN  /\ services' = [services EXCEPT ![s] = o.svc]
           /\ backend' = o.backend
           /\ ret' = [op |-> "storeGet",
                      status |-> IF o.raised THEN "Exception" ELSE "ok",
                      fault |-> fault, arg |-> [self |-> s, id |-> memory_id],
                      out |-> IF o.raised \/ ~o.svc.collection
                              THEN VSGetMemory([i \in {} |-> 0], memory_id)
                              ELSE VSGetMemory(index, memory_id),
                      calls |-> IF o.raised THEN {}
                                ELSE IF o.svc.collection THEN {"getById"}
                                ELSE {"AttributeError"}]
    /\ UNCHANGED <<index, adding, searching, nextId, added, deleted, tasks>>

\* a process over a collection of one entry, or over none
StoreInit ==
    /\ index \in {[i \in {} |-> 0]} \cup [1..1 -> PersistedRecords]
    /\ adding = {}
    /\ searching = {}
    /\ nextId = MaxStored + 1
    /\ added = [i \in {} |-> NoEntry]
    /\ deleted = {}
    /\ ret = NoRet
    /\ ProcessStart(index # [i \in {} |-> 0])

StoreNext ==
    \/ NewVectorStore
    \/ \E s \in 1..MaxServices, fault \in InitFaults : InitializeCall(s, fault)
    \/ \E s \in 1..MaxServices, fault \in InitFaults : StoreGetCall(s, 1, fault)

StoreSpec == StoreInit /\ [][StoreNext]_vars

----------------------------------------------------------------------------
(* Concurrent add calls *)

\* the add calls of user u that run concurrently: two texts, with and without
\* a tag
ConcurrentAddInputs ==
    {[text |-> t, tags |-> g, user_id |-> <<"u">>, metadata |-> EmptyDict] :
        t \in {<<"a">>, <<" ", "b">>}, g \in {<<>>, << <<"X">> >>}}

ConcurrentNext ==
    \/ \E a \in ConcurrentAddInputs, utcnow \in Clock :
          /\ Cardinality(adding) < MaxConcurrent
          /\ AddCall(a.text, a.tags, a.user_id, a.metadata, utcnow)
    \/ \E p \in adding, iv \in IVs, fault \in AddFaults : AddResume(p, iv, fault)

ConcurrentSpec == Init /\ [][ConcurrentNext]_vars

----------------------------------------------------------------------------
(* The counts and the statistics of a collection that grows *)

\* the add calls of two users
StatsAddInputs ==
    {[text |-> t, tags |-> <<>>, user_id |-> o, metadata |-> EmptyDict] :
        t \in {<<"a">>, <<"b">>}, o \in {<<"u">>, <<"v">>}}

StatsNext ==
    \/ \E a \in StatsAddInputs, utcnow \in Clock :
          AddBegin(a.text, a.tags, a.user_id, a.metadata, utcnow)
    \/ \E p \in adding, iv \in IVs : AddResume(p, iv, "none")
    \/ \E user_id \in {<<"u">>, <<"v">>}, fault \in StatsFaults :
          Count(user_id, fault)
    \/ \E fault \in StatsFaults : Stats(fault)

StatsSpec == Init /\ [][StatsNext]_vars

----------------------------------------------------------------------------
(* The read operations over a persisted collection *)

\* the search calls among the reads: one that truncates and one that does not
ReadSearchInputs ==
    {[query |-> <<"a">>, user_id |-> <<"u">>, limit |-> l, min_similarity |-> 0,
      tags |-> <<>>] : l \in {1, MaxStored}}

ReadNext ==
    \/ \E s \in ReadSearchInputs :
          SearchBegin(s.query, s.user_id, s.limit, s.min_similarity, s.tags)
    \/ \E request \in searching, utcnow \in Clock, fault \in SearchFaults :
          \E ids \in VSQueryAnswers(index, EncodeText(request.query).v, request.limit,
                                    request.user_id) :
              SearchResume(request, ids, utcnow, fault)
    \/ \E memory_id \in 1..(MaxStored + 1), user_id \in {<<"u">>, <<"v">>},
          utcnow \in Clock, fault \in GetFaults :
          Get(memory_id, user_id, utcnow, fault)
    \/ \E user_id \in {<<"u">>, <<"v">>}, fault \in StatsFaults :
          Count(user_id, fault)
    \/ \E fault \in StatsFaults : Stats(fault)

ReadSpec == RestartInit /\ [][ReadNext]_vars

----------------------------------------------------------------------------
(* The EncryptionService instances of the requests *)

\* EncryptionService(key) built by instance self
NewCipher(self, key) ==
    /\ LET c == CreateCipherSuite(self, key) IN
        ret' = [op |-> "derive", status |-> IF c.ok THEN "ok" ELSE "ValueError",
                fault |-> "none", arg |-> [self |-> self, key |-> key],
                out |-> c.suite, calls |-> {}]
    /\ UNCHANGED <<index, adding, searching, nextId, added, deleted>>
    /\ UNCHANGED procVars

\* encrypt(data) of the instance self built from key
CipherEncrypt(self, key, iv, data) ==
    /\ CreateCipherSuite(self, key).ok
    /\ ret' = [op |-> "encrypt", status |-> "ok", fault |-> "none",
               arg |-> [self |-> self, key |-> key, data |-> data],
               out |-> Encrypt(CreateCipherSuite(self, key).suite, iv, data),
               calls |-> {}]
    /\ UNCHANGED <<index, adding, searching, nextId, added, deleted>>
    /\ UNCHANGED procVars

\* decrypt(encrypted_data) of the instance self built from key; bySelf, byKey
\* and byData tell which encrypt call made encrypted_data (bySelf 0: none did)
CipherDecryptOf(self, key, encrypted_data, bySelf, byKey, byData) ==
    /\ CreateCipherSuite(self, key).ok
    /\ LET dec == Decrypt(CreateCipherSuite(self, key).suite, encrypted_data) IN
        ret' = [op |-> "decrypt", status |-> IF dec.ok THEN "ok" ELSE "ValueError",
                fault |-> "none",
                arg |-> [self |-> self, key |-> key,
                         encrypted_data |-> encrypted_data, bySelf |-> bySelf,
                         byKey |-> byKey, byData |-> byData],
                out |-> dec.v, calls |-> {}]
    /\ UNCHANGED <<index, adding, searching, nextId, added, deleted>>
    /\ UNCHANGED procVars

\* decrypt of what the last encrypt call returned
CipherDecrypt(self, key) ==
    /\ ret.op = "encrypt"
    /\ CipherDecryptOf(self, key, ret.out, ret.arg.self, ret.arg.key, ret.arg.data)

\* decrypt of a string no encrypt call returned
CipherDecryptMalformed(self, key, encrypted_data) ==
    CipherDecryptOf(self, key, encrypted_data, 0, "", <<>>)

CipherNext ==
    \/ \E self \in 1..MaxServices, key \in Secrets : NewCipher(self, key)
    \/ \E self \in 1..MaxServices, key \in Secrets, iv \in IVs, data \in Texts(MaxLen) :
          CipherEncrypt(self, key, iv, data)
    \/ \E self \in 1..MaxServices, key \in Secrets : CipherDecrypt(self, key)
    \/ \E self \in 1..MaxServices, key \in Secrets, encrypted_data \in Malformed :
          CipherDecryptMalformed(self, key, encrypted_data)

CipherSpec == Init /\ [][CipherNext]_vars

----------------------------------------------------------------------------
(* Tags and caller metadata through add, get and search *)

\* the add calls of user u whose tags and metadata are followed through the
\* collection: tags that differ in case and blanks only, a tag that holds the
\* delimiter, two plain tags with a string value, an integer value and a list
\* value
RoundTripAddInputs ==
    {[text |-> <<"a">>, tags |-> << <<"A", "b">>, <<" ", "a", "b", " ">>, <<"A", "B">> >>,
      user_id |-> <<"u">>, metadata |-> EmptyDict],
     [text |-> <<"a">>, tags |-> << <<"a", ",", "b">> >>,
      user_id |-> <<"u">>, metadata |-> EmptyDict],
     [text |-> <<"a">>, tags |-> << <<"a">>, <<"b">> >>,
      user_id |-> <<"u">>, metadata |-> "s" :> PyStr(<<"x">>)],
     [text |-> <<"a">>, tags |-> <<>>,
      user_id |-> <<"u">>, metadata |-> "n" :> PyInt(1)],
     [text |-> <<"a">>, tags |-> <<>>,
      user_id |-> <<"u">>, metadata |-> "l" :> PyList(<< <<"x">>, <<"y">> >>)]}

RoundTripNext ==
    \/ \E a \in RoundTripAddInputs, utcnow \in Clock :
          AddBegin(a.text, a.tags, a.user_id, a.metadata, utcnow)
    \/ \E p \in adding, iv \in IVs : AddResume(p, iv, "none")
    \/ SearchBegin(<<"a">>, <<"u">>, MaxIds, 0, <<>>)
    \/ \E request \in searching, utcnow \in Clock :
          \E ids \in VSQueryAnswers(index, EncodeText(request.query).v, request.limit,
                                    request.user_id) :
              SearchResume(request, ids, utcnow, "none")
    \/ \E memory_id \in 1..MaxIds, utcnow \in Clock :
          Get(memory_id, <<"u">>, utcnow, "none")

RoundTripSpec == Init /\ [][RoundTripNext]_vars

----------------------------------------------------------------------------
(* The batches of the embedder *)

\* the texts of a batch: empty, blank, plain and padded
BatchTexts == {<<>>, <<" ">>, <<"a">>, <<" ", "b">>}

BatchInputs == UNION {[1..n -> BatchTexts] : n \in 0..MaxBatch}

BatchNext ==
    \E texts \in BatchInputs, fault \in BatchFaults : EncodeTextsCall(texts, fault)

BatchSpec == Init /\ [][BatchNext]_vars

----------------------------------------------------------------------------
(* Properties *)

\* the collection without the entry of memory_id
Without(idx, memory_id) == [i \in DOMAIN idx \ {memory_id} |-> idx[i]]

\* the owner metadata stored with an entry of the collection
StoredOwner(idx, memory_id) == idx[memory_id].metadata["user_id"]

\* C1: a record in the index is returned by get to its true owner, the user
\* whose add created it, and to no other user.
C1_GetOwnershipIsolation ==
    (ret.op = "get" /\ ret.fault = "none" /\ ret.arg.id \in DOMAIN added)
        => (ret.out.found <=> ret.arg.user_id = added[ret.arg.id].user_id)

\* C2: the owner stored with a record is the user_id of the add call that
\* created it, whatever the caller's metadata holds.
C2_StoredOwnerIsSubmitter ==
    \A i \in DOMAIN added : StoredOwner(index, i) = added[i].user_id

\* C3: every result of a search is a record whose stored owner is the
\* requesting owner, for every owner a request can carry.
C3_SearchOwnerIsolation ==
    (ret.op = "search" /\ ret.status = "ok")
        => \A k \in 1..Len(ret.out) :
              StoredOwner(index, ret.out[k].id) = ret.arg.user_id

\* C4: for a user who is not the stored owner of an entry, get and delete give
\* the same answer (None, False; nothing raised) whether the entry exists or
\* not; and the get and delete calls made answer so.
C4_NonInterference ==
    /\ \A i \in DOMAIN index, a \in Owners, t \in Clock :
          StoredOwner(index, i) # a =>
              /\ GetMemory(index, i, a, t, "none") = None
              /\ GetMemory(Without(index, i), i, a, t, "none") = None
              /\ ~DeleteOutcome(index, i, a, t, "none").success
              /\ ~DeleteOutcome(Without(index, i), i, a, t, "none").success
    /\ (ret.op = "get"
          /\ (ret.arg.id \notin DOMAIN index
                \/ StoredOwner(index, ret.arg.id) # ret.arg.user_id))
          => (ret.out = None /\ ret.status = "ok")
    /\ (ret.op = "delete"
          /\ ret.arg.id \in DOMAIN index
          /\ StoredOwner(index, ret.arg.id) # ret.arg.user_id)
          => (ret.out = FALSE /\ ret.status = "ok")

C4_Witness ==
    /\ ret.op = "get"
    /\ ret.arg.id \in DOMAIN index
    /\ StoredOwner(index, ret.arg.id) # ret.arg.user_id
    /\ ret.out = None
    /\ \E o \in Owners : GetMemory(index, ret.arg.id, o, 0, "none").found

\* C5: an add that fails at the embedding, the encryption or the index write
\* raises, and a step that ends an add with an error leaves the collection as
\* it was, with no entry for the id of that call.
C5_AddAtomic ==
    [][/\ \A p \in adding, iv \in IVs, f \in AddFaults \ {"none"} :
              AddResume(p, iv, f) => ret'.status = "StorageError"
       /\ (ret'.op = "add" /\ ret'.status # "ok")
              => (index' = index /\ ret'.arg.id \notin DOMAIN index')]_vars

C5_Witness ==
    /\ ret.op = "add"
    /\ ret.status = "StorageError"
    /\ ret.fault = "put"
    /\ ret.calls = {"embed", "encrypt", "put"}
    /\ DOMAIN index # {}
    /\ ret.arg.id \notin DOMAIN index

\* C6: an add whose text is empty after trimming ends with a validation error,
\* has made no embed, encrypt or put call and leaves the collection as it was;
\* no add with such a text ever gets as far as the embedding.
C6_BlankTextRejected ==
    /\ [][(ret'.op = "add" /\ Strip(ret'.arg.text) = <<>>)
              => (ret'.status = "ValidationError" /\ ret'.calls = {}
                    /\ index' = index)]_vars
    /\ [](\A p \in adding : Strip(p.request.text) # <<>>)

C6_Witness ==
    /\ ret.op = "add"
    /\ ret.arg.text = <<" ">>
    /\ ret.status = "ValidationError"
    /\ DOMAIN index # {}

\* C7: once delete has returned True for an id, the collection has no entry
\* for it, get returns None for it to every user and no search returns it.
C7_DeletedStaysGone ==
    /\ \A i \in deleted :
          /\ i \notin DOMAIN index
          /\ \A o \in Owners, t \in Clock : ~GetMemory(index, i, o, t, "none").found
    /\ (ret.op = "delete" /\ ret.out = TRUE) => ret.arg.id \in deleted
    /\ (ret.op = "get" /\ ret.arg.id \in deleted) => ~ret.out.found
    /\ ret.op = "search" => \A k \in 1..Len(ret.out) : ret.out[k].id \notin deleted

C7_Witness ==
    /\ ret.op = "search"
    /\ ret.status = "ok"
    /\ deleted # {}
    /\ Len(ret.out) > 0

C9_OwnerGetsRecord ==
    (ret.op = "get" /\ ret.fault = "none" /\ ret.arg.id \in DOMAIN added
        /\ ret.arg.user_id = added[ret.arg.id].user_id)
        => /\ ret.out.found
           /\ ret.out.entry.id = added[ret.arg.id].id
           /\ ret.out.entry.text = added[ret.arg.id].text
           /\ ret.out.entry.timestamp = added[ret.arg.id].timestamp

\* C10: a search with min_similarity 0, no tag filter and a limit not below
\* the number of the owner's records returns every record an add of that owner
\* has returned, with a score in [0, 1]; and no search returns an id that the
\* collection does not hold.
C10_VisibleAfterAdd ==
    /\ (ret.op = "search" /\ ret.status = "ok" /\ ret.arg.min_similarity = 0
          /\ ret.arg.tags = <<>>
          /\ ret.arg.limit >= Cardinality({i \in DOMAIN added :
                                             added[i].user_id = ret.arg.user_id}))
          => \A i \in DOMAIN added :
                added[i].user_id = ret.arg.user_id
                    => \E k \in 1..Len(ret.out) :
                          /\ ret.out[k].id = i
                          /\ ret.out[k].similarity_score >= 0
                          /\ ret.out[k].similarity_score <= Unit
    /\ ret.op = "search" => \A k \in 1..Len(ret.out) : ret.out[k].id \in DOMAIN index

\* the entries of the collection that a search request matches: those the where
\* clause admits that pass the similarity threshold and the tag filter
Matching(idx, request) ==
    {i \in WhereMatches(idx, WhereClause(request.user_id)) :
        /\ Similarity(Distance(EncodeText(request.query).v, idx[i].embedding))
              >= request.min_similarity
        /\ (request.tags = <<>>
              \/ ("tags" \in DOMAIN idx[i].metadata
                    /\ AnyTagIn(request.tags,
                                ProcessMetadata(idx[i].metadata)["tags"].v)))}

\* the entries whose document the service's suite decrypts
Decryptable(idx) == {i \in DOMAIN idx : Decrypt(ServiceKey, idx[i].document).ok}

\* the ids of a list of search results
ResultIds(results) == {results[k].id : k \in 1..Len(results)}

DecryptThenTruncate(idx, request, ids, utcnow) ==
    LET good == BuildResults(
                    SortDesc(CollectMemories(idx, ids, EncodeText(request.query).v,
                                             request.min_similarity, request.tags)),
                    utcnow)
    IN  SubSeq(good, 1, Min(request.limit, Len(good)))

\* C12: a search returns the first limit, by similarity, of the candidates
\* that pass the similarity and tag filters and decrypt: decryption comes
\* before truncation.
C12_DecryptBeforeTruncate ==
    [][\A request \in searching, utcnow \in Clock :
          \A ids \in VSQueryAnswers(index, EncodeText(request.query).v,
                                    request.limit, request.user_id) :
              SearchResume(request, ids, utcnow, "none")
                  => ret'.out = DecryptThenTruncate(index, request, ids, utcnow)]_vars

\* C13: the list a search returns is ordered by similarity descending and has
\* at most limit elements, whatever the collection holds and whichever of its
\* documents fail to decrypt.
C13_SortedAndLimited ==
    ret.op = "search"
        => /\ Len(ret.out) <= ret.arg.limit
           /\ \A k \in 1..(Len(ret.out) - 1) :
                 ret.out[k].similarity_score >= ret.out[k + 1].similarity_score

C13_Witness ==
    /\ ret.op = "search"
    /\ ret.status = "ok"
    /\ Len(ret.out) = 2
    /\ ret.arg.limit = 2
    /\ ret.out[1].similarity_score > ret.out[2].similarity_score
    /\ Cardinality(Matching(index, ret.arg)) = 3
    /\ Matching(index, ret.arg) \ Decryptable(index) # {}

\* C14: get raises nothing, and it returns None for an id the collection does
\* not hold, for an entry stored for another user, for an entry whose document
\* fails to decrypt and for a failing read of the collection.
C14_GetNeverRaises ==
    ret.op = "get"
        => /\ ret.status = "ok"
           /\ ~ret.out.raised
           /\ (\/ ret.arg.id \notin DOMAIN index
               \/ StoredOwner(index, ret.arg.id) # ret.arg.user_id
               \/ ret.arg.id \notin Decryptable(index)
               \/ ret.fault = "read") => ret.out = None

C14_Witness ==
    /\ ret.op = "get"
    /\ ret.fault = "none"
    /\ ret.arg.id \in DOMAIN index
    /\ StoredOwner(index, ret.arg.id) = ret.arg.user_id
    /\ ret.arg.id \notin Decryptable(index)
    /\ ret.out = None
    /\ \E i \in DOMAIN index :
          GetMemory(index, i, ret.arg.user_id, 0, "none").found

\* the elements of a list
Elements(l) == {l[k] : k \in 1..Len(l)}

\* C15: the tags of the record add returns are trimmed, lowercase and not
\* empty, and no tag occurs in them twice.
C15_TagsNormalizedNoDuplicates ==
    (ret.op = "add" /\ ret.status = "ok")
        => /\ \A k \in 1..Len(ret.out.tags) :
                 /\ ret.out.tags[k] # <<>>
                 /\ ret.out.tags[k] = Lower(Strip(ret.out.tags[k]))
           /\ \A a, b \in 1..Len(ret.out.tags) :
                 a # b => ret.out.tags[a] # ret.out.tags[b]

\* C16: for a record added with a non-empty list of tags, the tags get and
\* search return are, as a set, the tags add returned.
C16_TagsRoundTrip ==
    /\ (ret.op = "get" /\ ret.out.found /\ ret.arg.id \in DOMAIN added
          /\ added[ret.arg.id].tags # <<>>)
          => Elements(ret.out.entry.tags) = Elements(added[ret.arg.id].tags)
    /\ ret.op = "search"
          => \A k \in 1..Len(ret.out) :
                (ret.out[k].id \in DOMAIN added /\ added[ret.out[k].id].tags # <<>>)
                    => Elements(ret.out[k].tags) = Elements(added[ret.out[k].id].tags)

\* C17: for a record added with metadata that holds no reserved key, the
\* metadata get and search return has the caller's keys with the values given
\* to add: a list is the same list, a scalar the same scalar.
C17_MetadataRoundTrip ==
    /\ (ret.op = "get" /\ ret.out.found /\ ret.arg.id \in DOMAIN added
          /\ DOMAIN added[ret.arg.id].metadata \cap ReservedKeys = {})
          => ret.out.entry.metadata = added[ret.arg.id].metadata
    /\ ret.op = "search"
          => \A k \in 1..Len(ret.out) :
                (ret.out[k].id \in DOMAIN added
                    /\ DOMAIN added[ret.out[k].id].metadata \cap ReservedKeys = {})
                    => ret.out[k].metadata = added[ret.out[k].id].metadata

\* C18: the document stored for a record is never its text: it is a token
\* that EncryptionService.encrypt gives for the text under the service's key,
\* and the service's suite decrypts it to the text.
C18_StoredIsCiphertext ==
    \A i \in DOMAIN index :
        /\ i \in DOMAIN added
        /\ index[i].document \in {Encrypt(ServiceKey, iv, added[i].text) : iv \in IVs}
        /\ Decrypt(ServiceKey, index[i].document) = [ok |-> TRUE, v |-> added[i].text]
        /\ index[i].document # added[i].text

C18_Witness ==
    /\ ret.op = "add"
    /\ ret.status = "ok"
    /\ ret.arg.id \in DOMAIN index
    /\ ret.arg.text = <<"b">>
    /\ index[ret.arg.id].document = Encrypt(ServiceKey, "iv1", <<"b">>)
    /\ Cardinality(DOMAIN index) = 2

\* C19: the embedding model is loaded at most once in the life of the
\* process, whatever number of requests it serves and however their first
\* encode_text calls interleave; every other call finds it loaded.
C19_ModelLoadedOnce == backend.loads <= 1

\* C20: initialize on an initialized instance changes nothing, the first
\* initialize leaves the collection created, and the process makes its client
\* connection and creates its collection at most once.
C20_SingleInitialization ==
    /\ \A s \in DOMAIN services :
          /\ services[s].client /\ services[s].collection /\ backend.exists
          /\ VSInitialize(services[s], backend)
                = [svc |-> services[s], backend |-> backend]
    /\ backend.creates <= 1
    /\ backend.clients <= 1

\* C21: add calls of one owner that overlap all carry ids of their own; each
\* that meets no failure returns its record and leaves the entries of the
\* others as they were, in whatever order they resume; and the collection
\* holds every returned record with its own text, tags and owner.
C21_ConcurrentAddsIndependent ==
    /\ [](/\ \A p, q \in adding : p.id = q.id => p = q
          /\ \A p \in adding : p.id \notin DOMAIN index
          /\ \A i \in DOMAIN added :
                /\ i \in DOMAIN index
                /\ Decrypt(ServiceKey, index[i].document)
                      = [ok |-> TRUE, v |-> added[i].text]
                /\ index[i].metadata["tags"] = Join(added[i].tags)
                /\ index[i].metadata["user_id"] = added[i].user_id)
    /\ [][\A p \in adding, iv \in IVs :
              AddResume(p, iv, "none")
                  => /\ ret'.status = "ok"
                     /\ ret'.out.id = p.id
                     /\ ret'.out.text = p.request.text
                     /\ p.id \in DOMAIN index'
                     /\ \A i \in DOMAIN index : index'[i] = index[i]]_vars

\* the call that began first returns last, after the other's record is stored
C21_Witness ==
    /\ ret.op = "add"
    /\ ret.status = "ok"
    /\ ret.arg.id = 1
    /\ DOMAIN added = {1, 2}
    /\ added[1].text # added[2].text
    /\ added[1].tags # added[2].tags
    /\ adding = {}

\* C22: a suite derived from a non-empty secret decrypts what it encrypted
\* from a non-empty text to that text.
C22_EncryptionRoundTrip ==
    (ret.op = "decrypt" /\ ret.arg.bySelf = ret.arg.self
        /\ ret.arg.byKey = ret.arg.key /\ ret.arg.key # ""
        /\ ret.arg.byData # <<>>)
        => (ret.status = "ok" /\ ret.out = ret.arg.byData)

C22_Witness ==
    /\ ret.op = "decrypt"
    /\ ret.arg.bySelf = ret.arg.self
    /\ ret.arg.byKey = ret.arg.key
    /\ ret.arg.key = "s1"
    /\ ret.arg.byData = <<"a", "b">>
    /\ ret.out = <<"a", "b">>

\* C23: decrypt of a non-empty string that no suite produced, or that a suite
\* of another secret produced, raises the decryption error and returns no
\* value.
C23_CrossKeyIsolation ==
    (ret.op = "decrypt" /\ ret.arg.encrypted_data # <<>>
        /\ (ret.arg.bySelf = 0 \/ ret.arg.byKey # ret.arg.key))
        => (ret.status = "ValueError" /\ ret.out = <<>>)

C23_Witness ==
    /\ ret.op = "decrypt"
    /\ ret.arg.bySelf # 0
    /\ ret.arg.byKey = "s1"
    /\ ret.arg.key = "s2"
    /\ ret.arg.byData = <<"a", "b">>
    /\ ret.status = "ValueError"

\* C24: building an EncryptionService from the empty secret raises an error.
C24_EmptySecretRefused ==
    (ret.op = "derive" /\ ret.arg.key = "") => ret.status # "ok"

\* C25: two instances built from the same secret are interchangeable: what
\* one encrypted from a non-empty text the other decrypts to that text.
C25_SameSecretSameSuite ==
    (ret.op = "decrypt" /\ ret.arg.bySelf # 0 /\ ret.arg.bySelf # ret.arg.self
        /\ ret.arg.byKey = ret.arg.key /\ ret.arg.byData # <<>>)
        => (ret.status = "ok" /\ ret.out = ret.arg.byData)

C25_Witness ==
    /\ ret.op = "decrypt"
    /\ ret.arg.bySelf = 1
    /\ ret.arg.self = 2
    /\ ret.arg.byKey = "s1"
    /\ ret.arg.key = "s1"
    /\ ret.arg.byData = <<"b", "a">>
    /\ ret.status = "ok"
    /\ ret.out = <<"b", "a">>

\* the number of entries of the collection whose stored owner is user_id
OwnedCount(idx, user_id) ==
    Cardinality({i \in DOMAIN idx : StoredOwner(idx, i) = user_id})

\* C26: whenever the count of the collection fails, the statistics returned
\* hold an error entry.
C26_StatsFailureReported ==
    (ret.op = "stats" /\ ret.fault = "count") => "error" \in DOMAIN ret.out

\* C27: the count returned for a user is the number of entries of the
\* collection whose owner is that user.
C27_CountIsPerUser ==
    (ret.op = "count" /\ ret.fault = "none")
        => ret.out = OwnedCount(index, ret.arg.user_id)

\* the tags of a stored entry as they are read back from its metadata
StoredTags(idx, memory_id) ==
    IF "tags" \in DOMAIN idx[memory_id].metadata
    THEN Elements(SplitTags(idx[memory_id].metadata["tags"]))
    ELSE {}

\* the entries a request matches when its tag filter is left out, and that
\* decrypt
TagCandidates(idx, request) ==
    Matching(idx, [request EXCEPT !.tags = <<>>]) \cap Decryptable(idx)

\* C28: the tag filter has OR semantics: of the candidates of a search that
\* truncates nothing, those returned under a non-empty tag filter are exactly
\* the ones whose tags hold at least one requested tag, and under an empty
\* filter all of them are returned.
C28_TagFilterOr ==
    (ret.op = "search" /\ ret.fault = "none"
        /\ Cardinality(DOMAIN index) <= ret.arg.limit)
        => ResultIds(ret.out) =
              {i \in TagCandidates(index, ret.arg) :
                  ret.arg.tags = <<>>
                  \/ Elements(ret.arg.tags) \cap StoredTags(index, i) # {}}

\* a search for x or w over an entry tagged x only, one tagged y only and one
\* tagged x and y: the first and the third are returned
C28_Witness ==
    /\ ret.op = "search"
    /\ ret.fault = "none"
    /\ ret.arg.tags = << <<"x">>, <<"w">> >>
    /\ DOMAIN index = 1..3
    /\ StoredTags(index, 1) = {<<"x">>}
    /\ StoredTags(index, 2) = {<<"y">>}
    /\ StoredTags(index, 3) = {<<"x">>, <<"y">>}
    /\ Decryptable(index) = 1..3
    /\ ResultIds(ret.out) = {1, 3}

\* C29: a search whose fetched neighbours are all the entries of its owner
\* returns no entry whose similarity is below the threshold, returns only
\* entries that pass the threshold and the tag filter and decrypt, and returns
\* all of them up to limit.
C29_ThresholdAndCompleteness ==
    (ret.op = "search" /\ ret.fault = "none"
        /\ Cardinality(WhereMatches(index, WhereClause(ret.arg.user_id)))
              <= 2 * ret.arg.limit)
        => LET good == Matching(index, ret.arg) \cap Decryptable(index)
           IN  /\ \A i \in ResultIds(ret.out) :
                     Similarity(Distance(EncodeText(ret.arg.query).v,
                                         index[i].embedding))
                        >= ret.arg.min_similarity
               /\ ResultIds(ret.out) \subseteq good
               /\ Len(ret.out) = Min(ret.arg.limit, Cardinality(good))

\* C30: a search in which the embedding of the query or the query of the
\* collection fails ends with an error and no result, and a search in which
\* neither fails returns normally, whatever happens to its single records.
C30_SearchFailureAborts ==
    ret.op = "search"
        => /\ ret.fault \in {"embed", "query"}
                  => (ret.status = "StorageError" /\ ret.out = <<>>)
           /\ (ret.fault = "none" /\ ret.status # "ValidationError")
                  => ret.status = "ok"

\* the query of the collection fails in a search that a stored entry matches
C30_Witness ==
    /\ ret.op = "search"
    /\ ret.fault = "query"
    /\ Matching(index, ret.arg) \cap Decryptable(index) # {}
    /\ ret.status = "StorageError"
    /\ ret.out = <<>>

C32_TagNormalizationIdempotent ==
    \A p \in adding :
        /\ p.entry.tags = p.request.tags
        /\ CleanTags(p.request.tags) = p.request.tags

\* an add call whose three tags needed trimming and lowering
C32_Witness ==
    \E p \in adding :
        /\ p.request.tags = << <<"a", "b">>, <<"a", "b">>, <<"a", "b">> >>
        /\ p.entry.tags = p.request.tags

\* the positions of the non-blank texts of a batch
NonBlank(texts) == {i \in 1..Len(texts) : Strip(texts[i]) # <<>>}

\* C33: a batch in which the model does not fail returns one vector for each
\* of its non-blank texts, and raises when it holds no non-blank text: when
\* every text is blank and when the list is empty.
C33_BatchDropsBlanksFailsOnNone ==
    (ret.op = "embedBatch" /\ ret.fault = "none")
        => IF NonBlank(ret.arg.texts) = {}
           THEN ret.status # "ok"
           ELSE /\ ret.status = "ok"
                /\ Len(ret.out) = Cardinality(NonBlank(ret.arg.texts))

\* C34: encrypt returns the empty string for the empty string, and decrypt
\* returns the empty string for the empty string without raising, so that
\* decrypting what encrypt made of the empty string gives the empty string.
C34_EmptyPassthrough ==
    /\ (ret.op = "encrypt" /\ ret.arg.data = <<>>)
          => (ret.status = "ok" /\ ret.out = <<>>)
    /\ (ret.op = "decrypt"
          /\ (ret.arg.encrypted_data = <<>>
                 \/ (ret.arg.bySelf # 0 /\ ret.arg.byData = <<>>)))
          => (ret.status = "ok" /\ ret.out = <<>>)

\* decrypt of what an encrypt call made of the empty string
C34_Witness ==
    /\ ret.op = "decrypt"
    /\ ret.arg.bySelf # 0
    /\ ret.arg.byData = <<>>
    /\ ret.arg.encrypted_data = <<>>
    /\ ret.status = "ok"
    /\ ret.out = <<>>

\* C35: within an add call the embedding comes before the encryption and the
\* write of the collection comes last: a call that reached the encryption has
\* its embedding, a call that reached the write has both; the collection
\* changes only in the step of a call whose write succeeded, by the entry of
\* that call; and a call suspended before its write has no entry in the
\* collection.
C35_AddStepOrder ==
    /\ [](\A p \in adding : p.id \notin DOMAIN index)
    /\ []((ret.op = "add" /\ ret.status # "ValidationError")
            => /\ "embed" \in ret.calls
               /\ "encrypt" \in ret.calls => ret.fault # "embed"
               /\ "put" \in ret.calls
                     => ("encrypt" \in ret.calls
                           /\ ret.fault \notin {"embed", "encrypt"}))
    /\ [][index' # index
            => /\ ret'.op = "add"
               /\ ret'.status = "ok"
               /\ ret'.calls = {"embed", "encrypt", "put"}
               /\ DOMAIN index' = DOMAIN index \cup {ret'.arg.id}
               /\ \A i \in DOMAIN index : index'[i] = index[i]]_vars

\* an add call ended by the failure of its encryption while another call is
\* suspended: the embedding was made, the write was not, and neither call has
\* an entry in the collection
C35_Witness ==
    /\ ret.op = "add"
    /\ ret.fault = "encrypt"
    /\ ret.calls = {"embed", "encrypt"}
    /\ ret.arg.id \notin DOMAIN index
    /\ \E p \in adding : p.id \notin DOMAIN index

\* 1 - min(distance, 1) of a stored entry for a request, spelled out
Clamped(idx, request, i) ==
    LET d == Distance(EncodeText(request.query).v, idx[i].embedding)
    IN  IF d > Unit THEN 0 ELSE Unit - d

\* C36: the score of every result of a search is 1 - min(distance, 1) of its
\* entry, rounded, and lies in [0, 1]; as no similarity is negative, a search
\* with the threshold 0 that truncates nothing drops no entry for its
\* similarity, however far the entry is.
C36_SimilarityInUnitInterval ==
    (ret.op = "search" /\ ret.fault = "none")
        => /\ \A k \in 1..Len(ret.out) :
                 /\ ret.out[k].similarity_score
                       = Round4(Clamped(index, ret.arg, ret.out[k].id))
                 /\ ret.out[k].similarity_score >= 0
                 /\ ret.out[k].similarity_score <= Unit
           /\ (ret.arg.min_similarity = 0 /\ ret.arg.tags = <<>>
                  /\ Cardinality(DOMAIN index) <= ret.arg.limit)
                 => ResultIds(ret.out)
                       = WhereMatches(index, WhereClause(ret.arg.user_id))
                            \cap Decryptable(index)

\* a search returns an entry whose distance is above 1 with the score 0
C36_Witness ==
    /\ ret.op = "search"
    /\ ret.fault = "none"
    /\ \E k \in 1..Len(ret.out) :
          /\ Distance(EncodeText(ret.arg.query).v, index[ret.out[k].id].embedding)
                > Unit
          /\ ret.out[k].similarity_score = 0

\* the entries of the collection whose stored owner is user_id
OwnedBy(idx, user_id) == {i \in DOMAIN idx : StoredOwner(idx, i) = user_id}

\* C37: the candidates of a search are the 2 * limit entries of the
\* requesting owner that are nearest to the query, or all the owner's entries
\* when there are fewer, and every result is one of these candidates.
C37_TwoLimitNeighboursOfOwner ==
    [][\A request \in searching, utcnow \in Clock :
          \A ids \in VSQueryAnswers(index, EncodeText(request.query).v,
                                    request.limit, request.user_id) :
              SearchResume(request, ids, utcnow, "none")
                  => LET owned == OwnedBy(index, request.user_id)
                         d(i) == Distance(EncodeText(request.query).v,
                                          index[i].embedding)
                     IN  /\ Elements(ids) \subseteq owned
                         /\ Len(ids) = Min(2 * request.limit, Cardinality(owned))
                         /\ \A i \in Elements(ids), j \in owned \ Elements(ids) :
                                d(i) <= d(j)
                         /\ ResultIds(ret'.out) \subseteq Elements(ids)]_vars

\* C38: a delete call returns true only for an entry that the collection
\* holds when the call deletes it and no longer holds afterwards, and no
\* delete call returns true for an entry for which an earlier one did: of the
\* delete calls for one entry at most one returns true.
C38_DeleteExclusive ==
    [][(ret'.op = "delete" /\ ret'.out = TRUE)
          => /\ ret'.arg.id \in DOMAIN index
             /\ ret'.arg.id \notin DOMAIN index'
             /\ ret'.arg.id \notin deleted]_vars

\* the owner's second delete call for an entry returns false
C38_Witness ==
    /\ ret.op = "delete"
    /\ ret.fault = "none"
    /\ ret.arg.user_id = <<"u">>
    /\ ret.arg.id \in deleted
    /\ ret.out = FALSE

\* C39: in every state every VectorStore instance that has a client has a
\* collection, also after an initialize that raised, and no operation reads a
\* missing collection.
C39_ClientOnlyWithCollection ==
    /\ \A s \in DOMAIN services : services[s].client => services[s].collection
    /\ ret.op = "storeGet" => "AttributeError" \notin ret.calls

\* C40: a step of search, get, get_user_memories_count or the statistics
\* leaves the collection as it was, whether the call returns a value, returns
\* nothing or fails.
C40_ReadsLeaveIndex ==
    [][(ret'.op \in {"search", "get", "count", "stats"} \/ searching' # searching)
          => index' = index]_vars

\* a get call that fails to decrypt the entry of its owner returns None over
\* the full collection
C40_Witness ==
    /\ ret.op = "get"
    /\ ret.fault = "none"
    /\ ret.arg.id \in DOMAIN index
    /\ StoredOwner(index, ret.arg.id) = ret.arg.user_id
    /\ ~ret.out.found
    /\ DOMAIN index = 1..MaxStored

====
